---- MODULE Spec2Model ----
(***************************************************************************)
(* Lonitor (src/app.py): the EnhancedSysMonitor window, its one-second     *)
(* sampling callback update_stats and its four user-triggered action       *)
(* handlers, all run by the Qt event loop on the GUI thread.               *)
(*                                                                         *)
(* Numbers.  Percentages and temperatures are carried in tenths (599 is    *)
(* 59.9), which is the precision psutil reports and the labels print.      *)
(* Network counters are bytes; RAM and disk sizes are carried in MiB so    *)
(* that the GiB conversion stays within 32-bit integers.                   *)
(***************************************************************************)
EXTENDS Integers, Sequences, FiniteSets, TLC

VARIABLES
    x,                   \* self.x, the tick counter
    cpu_series,          \* self.cpu_series: sequence of points [x, y]
    ram_series,          \* self.ram_series
    cpu_axis_x,          \* self.cpu_series.axis_x range <<min, max>>
    ram_axis_x,          \* self.ram_series.axis_x range <<min, max>>
    cpu_label,           \* text of self.cpu_label (tenths of a percent)
    cpu_temp_label,      \* text of self.cpu_temp_label (tenths of a degree)
    cpu_bar,             \* self.cpu_bar: [value, color]
    ram_label,
    ram_details,
    ram_bar,
    disk_label,
    disk_bar,
    network_sent_label,  \* tenths of a MB
    network_recv_label,
    battery_label,
    battery_bar,
    uptime_label,
    process_table,       \* rows of self.process_table
    selected_row,        \* selected row of the table, 0 when none
    power_combo,         \* self.power_combo.currentText()
    log_output,          \* lines of self.log_output
    network_baseline,    \* self.network_baseline
    timer_active,        \* self.timer is started
    alive,               \* the process has not been aborted
    frame,               \* the action handler on the GUI thread's stack, if any
    os_net,              \* the OS counters as of the program's last read
    os_net_reset,        \* the OS counters went backwards between two reads
    snapshot             \* what the sources answered the latest update_stats

vars == <<x, cpu_series, ram_series, cpu_axis_x, ram_axis_x, cpu_label,
          cpu_temp_label, cpu_bar, ram_label, ram_details, ram_bar, disk_label,
          disk_bar, network_sent_label, network_recv_label, battery_label,
          battery_bar, uptime_label, process_table, selected_row, power_combo,
          log_output, network_baseline, timer_active, alive, frame, os_net,
          os_net_reset, snapshot>>

chartVars == <<x, cpu_series, ram_series, cpu_axis_x, ram_axis_x>>
cpuVars == <<cpu_label, cpu_temp_label, cpu_bar>>
ramVars == <<ram_label, ram_details, ram_bar>>
diskVars == <<disk_label, disk_bar>>
netVars == <<network_sent_label, network_recv_label>>
batteryVars == <<battery_label, battery_bar>>
tableVars == <<process_table, selected_row>>
osVars == <<os_net, os_net_reset>>

(***************************************************************************)
(* Program constants.                                                      *)
(***************************************************************************)
Capacity == 60
AxisInit == 60
AxisWindow == 60
BarMinimum == 0
BarMaximum == 100
ElevatedFrom == 60
CriticalFrom == 85
TopLimit == 10
POWER_TIME_UNLIMITED == -2
POWER_TIME_UNKNOWN == -1
MiB == 1024 * 1024
GiBInMiB == 1024
PowerModes == {"performance", "balanced", "power-saver"}

Min(a, b) == IF a < b THEN a ELSE b
Max(a, b) == IF a > b THEN a ELSE b

\* f"{v:.1f}" of the quotient num/den, in tenths (den > 0).
Fmt1(num, den) == (20 * num + den) \div (2 * den)

\* f"{v:.0f}" of a value given in tenths: round half to even.
Fmt0(t) ==
    LET q == t \div 10
        r == t % 10
    IN  IF r < 5 THEN q
        ELSE IF r > 5 THEN q + 1
        ELSE IF q % 2 = 0 THEN q ELSE q + 1

\* int(v) of a value given in tenths: truncation toward zero.
IntOf(t) == IF t >= 0 THEN t \div 10 ELSE -((-t) \div 10)

(***************************************************************************)
(* Helper functions (src/app.py 20-125) and StyledProgressBar.update_color.*)
(* Each takes what the OS answered as its argument.  An optional value is  *)
(* a sequence of length 0 (None) or 1.                                     *)
(***************************************************************************)
None == <<>>
Some(v) == <<v>>

\* get_cpu_temp: the file's integer (millidegrees) / 1000, or 0.0 when the
\* open, the read or int() raises.  The result is carried in millidegrees.
\* (mutant) a sentinel of -1.0 instead of 0.0 from the except branch.
get_cpu_temp_sentinel(thermal_file) ==
    IF thermal_file.raises THEN -1000 ELSE thermal_file.millideg
get_cpu_temp(thermal_file) ==
    IF thermal_file.raises THEN 0 ELSE thermal_file.millideg

\* get_battery_info: None without a battery.
get_battery_info(battery) ==
    IF battery = None THEN None
    ELSE LET b == battery[1]
         IN  Some([status  |-> IF b.power_plugged THEN "Charging" ELSE "Discharging",
                   percent |-> b.percent,
                   time    |-> IF b.secsleft = POWER_TIME_UNLIMITED THEN <<"Plugged In">>
                               ELSE IF b.secsleft = POWER_TIME_UNKNOWN THEN <<"Calculating...">>
                               ELSE <<b.secsleft \div 3600, (b.secsleft % 3600) \div 60>>,
                   plugged |-> b.power_plugged])

\* get_disk_info: sizes as quotients over GiB (numerators kept, in MiB).
get_disk_info(usage) ==
    [total |-> usage.total, used |-> usage.used, free |-> usage.free,
     percent |-> usage.percent]

\* get_network_info: the counters as quotients over 1024**2 (numerators kept).
get_network_info(net) ==
    [sent |-> net.bytes_sent, recv |-> net.bytes_recv]

\* sorted(..., key=cpu_percent, reverse=True): a stable insertion by key.
RECURSIVE InsertByCpu(_, _)
InsertByCpu(p, sorted) ==
    IF sorted = <<>> THEN <<p>>
    ELSE IF p.cpu_percent > Head(sorted).cpu_percent THEN <<p>> \o sorted
    ELSE <<Head(sorted)>> \o InsertByCpu(p, Tail(sorted))

RECURSIVE SortByCpuDesc(_)
SortByCpuDesc(ps) ==
    IF ps = <<>> THEN <<>>
    ELSE InsertByCpu(ps[Len(ps)], SortByCpuDesc(SubSeq(ps, 1, Len(ps) - 1)))

get_top_processes(procs, limit) ==
    SubSeq(SortByCpuDesc(procs), 1, Min(limit, Len(procs)))

\* (mutant) the thresholds compared with <=, the boundaries in the lower band.
update_color_inclusive(value) ==
    IF value <= ElevatedFrom * 10 THEN "#4CAF50"
    ELSE IF value <= CriticalFrom * 10 THEN "#FF9800"
    ELSE "#F44336"
\* (mutant) no middle band: everything from 60 coloured as from 85.
update_color_two_bands(value) ==
    IF value < ElevatedFrom * 10 THEN "#4CAF50" ELSE "#F44336"
\* StyledProgressBar.update_color, of a value in tenths.
update_color(value) ==
    IF value < ElevatedFrom * 10 THEN "#4CAF50"
    ELSE IF value < CriticalFrom * 10 THEN "#FF9800"
    ELSE "#F44336"

(***************************************************************************)
(* The four privileged actions: (success, message) for each way the        *)
(* underlying operation can end.  A message is its text, the pid or mode   *)
(* formatted into it, and str(e) of the exception caught (by its kind).    *)
(***************************************************************************)
Msg(text, pid, detail) == [text |-> text, pid |-> pid, detail |-> detail]
Result(success, message) == [success |-> success, message |-> message]

clear_ram_cache(outcome) ==
    IF outcome = "ok"
    THEN Result(TRUE, Msg("RAM cache cleared successfully!", 0, ""))
    ELSE Result(FALSE, Msg("Failed to clear RAM cache: ", 0, outcome))

\* subprocess.run(..., check=False) discards the exit status, and a failure
\* to remove one item of ~/.cache is passed over; only an exception outside
\* the inner try (the spawn itself, os.listdir) reaches the outer handler.
clear_storage_cache(outcome) ==
    IF outcome \in {"ok", "CalledProcessError", "item_error"}
    THEN Result(TRUE, Msg("Storage caches cleared successfully!", 0, ""))
    ELSE Result(FALSE, Msg("Failed to clear storage cache: ", 0, outcome))

set_power_mode(mode, outcome) ==
    IF outcome = "ok"
    THEN Result(TRUE, Msg("Power mode set to ", 0, mode))
    ELSE Result(FALSE, Msg("Failed to set power mode: ", 0, outcome))

\* (mutant) ProcessLookupError falling through to the generic handler.
kill_process_generic(pid, outcome) ==
    IF outcome = "ok"
    THEN Result(TRUE, Msg("Process {pid} terminated successfully", pid, ""))
    ELSE IF outcome = "PermissionError"
    THEN Result(FALSE, Msg("Permission denied to kill process {pid}", pid, ""))
    ELSE Result(FALSE, Msg("Failed to kill process: ", 0, outcome))
kill_process(pid, outcome) ==
    IF outcome = "ok"
    THEN Result(TRUE, Msg("Process {pid} terminated successfully", pid, ""))
    ELSE IF outcome = "ProcessLookupError"
    THEN Result(FALSE, Msg("Process {pid} not found", pid, ""))
    ELSE IF outcome = "PermissionError"
    THEN Result(FALSE, Msg("Permission denied to kill process {pid}", pid, ""))
    ELSE Result(FALSE, Msg("Failed to kill process: ", 0, outcome))

\* log_message: one line "[HH:MM:SS] message" appended; the wall-clock
\* stamp is not modelled.
log_message(log, message) == Append(log, [stamp |-> "[HH:MM:SS]", message |-> message])

(***************************************************************************)
(* Widgets.                                                                *)
(***************************************************************************)
\* QProgressBar.setValue: a value outside [minimum, maximum] is ignored.
setValue(bar, value) ==
    IF value < BarMinimum \/ value > BarMaximum THEN bar
    ELSE [bar EXCEPT !.value = value]

\* StyledProgressBar.update_color restyles the bar's chunk.
setColor(bar, value) == [bar EXCEPT !.color = update_color(value)]

\* A fresh StyledProgressBar: QProgressBar's value is -1 until set, and the
\* constructor's style sheet colours the chunk #4CAF50.
NewBar == [value |-> -1, color |-> "#4CAF50"]

\* QLineSeries.append(x, y), and .remove(0) once count() exceeds 60.
append(series, px, py) == Append(series, [x |-> px, y |-> py])
\* (mutant) the eviction test off by one: count() > 61.
evict_late(series) == IF Len(series) > Capacity + 1 THEN Tail(series) ELSE series
\* (mutant) the eviction taking the newest point: remove(count() - 1).
evict_newest(series) ==
    IF Len(series) > Capacity THEN SubSeq(series, 1, Len(series) - 1) ELSE series
evict(series) == IF Len(series) > Capacity THEN Tail(series) ELSE series

\* (mutant) the range set from self.x before its increment.
axisRange_stale(tick) == <<Max(0, tick - 1 - AxisWindow), tick - 1>>
\* axis_x.setRange(max(0, self.x - 60), self.x), of the new self.x.
axisRange(tick) == <<Max(0, tick - AxisWindow), tick>>

\* update_process_table: one row per process; the selection model keeps a
\* selected row by index unless setRowCount removed it.
tableRows(processes) ==
    [i \in 1..Len(processes) |->
        [pid  |-> processes[i].pid,
         name |-> processes[i].name,
         cpu  |-> processes[i].cpu_percent,
         mem  |-> processes[i].memory_percent]]

keepSelection(row, rowCount) == IF row > rowCount THEN 0 ELSE row

(***************************************************************************)
(* The GUI thread.  frame is the action handler on its stack: at "idle"    *)
(* there is none; at "running" the handler is inside a blocking            *)
(* subprocess.run; at the other places it waits in the nested event loop   *)
(* of a modal QMessageBox, which keeps delivering timer events to the      *)
(* window while it blocks the window's own input.                          *)
(***************************************************************************)
NoFrame == [fn |-> "none", at |-> "idle", pid |-> 0, process_name |-> "",
            mode |-> "", result |-> Result(FALSE, Msg("", 0, ""))]

Dialogs == {"warning_no_selection", "question", "result"}

\* An event loop is running on the GUI thread: the application's, or the
\* nested one of a modal dialog.
InEventLoop == frame.at = "idle" \/ frame.at \in Dialogs

\* (mutant) the timeout delivered whatever the GUI thread is doing.
TimerCanFire_anytime == alive /\ timer_active
\* The timer's timeout can be delivered to update_stats.
TimerCanFire == alive /\ timer_active /\ InEventLoop

\* The window accepts clicks: no modal dialog is up and no handler runs.
WindowAcceptsInput == alive /\ frame.at = "idle"

(***************************************************************************)
(* update_stats(s): one tick, s being what the metric sources answer.      *)
(* s.raises names the sources whose read raises.  The six reads of lines   *)
(* 613-618 come first, so that an exception there leaves every widget      *)
(* untouched; boot_time is read at line 660, after the labels and before   *)
(* the charts; the process list at line 683, after the charts.  No         *)
(* exception is caught: PyQt aborts the process on one escaping a slot.    *)
(***************************************************************************)
ReadSources == {"cpu", "ram", "battery", "disk", "net"}
Sources == ReadSources \cup {"boot", "procs"}

\* (mutant) the baseline moved to the previous reading on every tick.
update_stats_frame_rebase ==
    /\ network_baseline' = get_network_info(os_net)
    /\ UNCHANGED <<power_combo, log_output, timer_active, frame>>
\* (mutant) the RAM cache cleared from the timer and the outcome logged.
update_stats_frame_autoclear ==
    /\ log_output' = log_message(log_output, clear_ram_cache("ok").message)
    /\ UNCHANGED <<power_combo, network_baseline, timer_active, frame>>
\* What update_stats leaves untouched whatever the sample.
update_stats_frame ==
    UNCHANGED <<power_combo, log_output, network_baseline, timer_active, frame>>

\* (mutant) the subtraction the wrong way round.
net_delta_swapped(now, baseline) == baseline - now
\* net_sent / net_recv of lines 643-644 (numerators over 1024**2).
net_delta(now, baseline) == now - baseline

\* (mutant) the charge itself handed to update_color.
battery_monitored_charge(b) == b.percent
\* The argument of battery_bar.update_color (line 654).
battery_monitored(b) == IF ~b.plugged THEN 1000 - b.percent ELSE 0

update_labels(s) ==
    LET cpu == s.cpu
        temp == get_cpu_temp(s.thermal)
        battery_info == get_battery_info(s.battery)
        disk_info == get_disk_info(s.disk)
        network_info == get_network_info(s.net)
        net_sent == net_delta(network_info.sent, network_baseline.sent)
        net_recv == net_delta(network_info.recv, network_baseline.recv)
    IN  /\ cpu_label' = cpu
        /\ cpu_temp_label' = Fmt1(temp, 1000)
        /\ cpu_bar' = setColor(setValue(cpu_bar, IntOf(cpu)), cpu)
        /\ ram_label' = s.ram.percent
        /\ ram_details' = <<Fmt1(s.ram.used, GiBInMiB), Fmt1(s.ram.total, GiBInMiB)>>
        /\ ram_bar' = setColor(setValue(ram_bar, IntOf(s.ram.percent)), s.ram.percent)
        /\ disk_label' = <<Fmt1(disk_info.used, GiBInMiB), Fmt1(disk_info.total, GiBInMiB)>>
        /\ disk_bar' = setColor(setValue(disk_bar, IntOf(disk_info.percent)), disk_info.percent)
        /\ network_sent_label' = Fmt1(net_sent, MiB)
        /\ network_recv_label' = Fmt1(net_recv, MiB)
        /\ IF battery_info # None
           THEN LET b == battery_info[1]
                IN  /\ battery_label' = [text |-> b.status, percent |-> Fmt0(b.percent)]
                    /\ battery_bar' = setColor(setValue(battery_bar, IntOf(b.percent)),
                                               battery_monitored(b))
           ELSE /\ battery_label' = [text |-> "No battery detected", percent |-> 0]
                /\ battery_bar' = setValue(battery_bar, 0)

update_uptime(s) ==
    LET uptime_seconds == s.uptime
    IN  uptime_label' = <<uptime_seconds \div 3600, (uptime_seconds % 3600) \div 60>>

update_charts(s) ==
    /\ cpu_series' = evict(append(cpu_series, x, s.cpu))
    /\ ram_series' = evict(append(ram_series, x, s.ram.percent))
    /\ x' = x + 1
    /\ cpu_axis_x' = axisRange(x + 1)
    /\ ram_axis_x' = axisRange(x + 1)

update_process_table(s) ==
    LET processes == get_top_processes(s.procs, TopLimit)
    IN  /\ process_table' = tableRows(processes)
        /\ selected_row' = keepSelection(selected_row, Len(processes))

\* The OS counters as the program last saw them, and whether they ever
\* went backwards from one read to the next.
read_counters(s) ==
    /\ os_net' = s.net
    /\ os_net_reset' = (\/ os_net_reset
                        \/ s.net.bytes_sent < os_net.bytes_sent
                        \/ s.net.bytes_recv < os_net.bytes_recv)

update_stats(s) ==
    /\ TimerCanFire
    /\ update_stats_frame
    /\ snapshot' = Some(s)
    /\ IF s.raises \cap ReadSources # {}
       THEN /\ alive' = FALSE
            /\ UNCHANGED <<chartVars, cpuVars, ramVars, diskVars, netVars,
                           batteryVars, uptime_label, tableVars, osVars>>
       ELSE /\ read_counters(s)
            /\ update_labels(s)
            /\ IF "boot" \in s.raises
               THEN /\ alive' = FALSE
                    /\ UNCHANGED <<uptime_label, chartVars, tableVars>>
               ELSE /\ update_uptime(s)
                    /\ update_charts(s)
                    /\ IF "procs" \in s.raises
                       THEN alive' = FALSE /\ UNCHANGED tableVars
                       ELSE alive' = alive /\ update_process_table(s)

(***************************************************************************)
(* User input and the action handlers (lines 692-749).                     *)
(***************************************************************************)
\* Everything but the handler's own frame and the log.
handlerRest == <<chartVars, cpuVars, ramVars, diskVars, netVars, batteryVars,
                 uptime_label, tableVars, power_combo, network_baseline,
                 timer_active, alive, osVars, snapshot>>

\* The user selects row r of the process table (SingleSelection, SelectRows).
select_row(r) ==
    /\ WindowAcceptsInput
    /\ r \in 1..Len(process_table)
    /\ selected_row' = r
    /\ UNCHANGED <<chartVars, cpuVars, ramVars, diskVars, netVars, batteryVars,
                   uptime_label, process_table, power_combo, log_output,
                   network_baseline, timer_active, alive, frame, osVars, snapshot>>

\* The user picks another entry of the power-profile combo box.
choose_power_mode(mode) ==
    /\ WindowAcceptsInput
    /\ mode \in PowerModes
    /\ power_combo' = mode
    /\ UNCHANGED <<chartVars, cpuVars, ramVars, diskVars, netVars, batteryVars,
                   uptime_label, tableVars, log_output, network_baseline,
                   timer_active, alive, frame, osVars, snapshot>>

\* kill_selected_process up to its first dialog (lines 692-708).
kill_selected_process ==
    /\ WindowAcceptsInput
    /\ frame' = IF selected_row = 0
                THEN [NoFrame EXCEPT !.fn = "kill_selected_process",
                                     !.at = "warning_no_selection"]
                ELSE [NoFrame EXCEPT !.fn = "kill_selected_process",
                                     !.at = "question",
                                     !.pid = process_table[selected_row].pid,
                                     !.process_name = process_table[selected_row].name]
    /\ UNCHANGED <<handlerRest, log_output>>

\* (mutant) the pid read from the table again once the user has answered.
answer_question_reread(reply, outcome) ==
    /\ alive
    /\ frame.at = "question"
    /\ IF reply = "Yes"
       THEN LET row == IF selected_row = 0 THEN 1 ELSE selected_row
                r == kill_process(process_table[row].pid, outcome)
            IN  /\ log_output' = log_message(log_output, r.message)
                /\ frame' = [frame EXCEPT !.at = "result", !.result = r]
       ELSE /\ frame' = NoFrame
            /\ UNCHANGED log_output
    /\ UNCHANGED handlerRest
\* The user answers the confirmation (lines 710-716); on Yes os.kill ends
\* as outcome says and the result dialog opens.
answer_question(reply, outcome) ==
    /\ alive
    /\ frame.at = "question"
    /\ IF reply = "Yes"
       THEN LET r == kill_process(frame.pid, outcome)
            IN  /\ log_output' = log_message(log_output, r.message)
                /\ frame' = [frame EXCEPT !.at = "result", !.result = r]
       ELSE /\ frame' = NoFrame
            /\ UNCHANGED log_output
    /\ UNCHANGED handlerRest

\* apply_power_mode up to subprocess.run (lines 718-721).
apply_power_mode ==
    /\ WindowAcceptsInput
    /\ frame' = [NoFrame EXCEPT !.fn = "apply_power_mode", !.at = "running",
                                !.mode = power_combo]
    /\ UNCHANGED <<handlerRest, log_output>>

\* clear_ram_cache_action up to subprocess.run (lines 728-730).
clear_ram_cache_action ==
    /\ WindowAcceptsInput
    /\ frame' = [NoFrame EXCEPT !.fn = "clear_ram_cache_action", !.at = "running"]
    /\ UNCHANGED <<handlerRest, log_output>>

\* clear_storage_cache_action up to subprocess.run (lines 737-739).
clear_storage_cache_action ==
    /\ WindowAcceptsInput
    /\ frame' = [NoFrame EXCEPT !.fn = "clear_storage_cache_action", !.at = "running"]
    /\ UNCHANGED <<handlerRest, log_output>>

\* The privileged action the running handler called, ending as outcome says.
privileged_action(outcome) ==
    IF frame.fn = "apply_power_mode" THEN set_power_mode(frame.mode, outcome)
    ELSE IF frame.fn = "clear_ram_cache_action" THEN clear_ram_cache(outcome)
    ELSE clear_storage_cache(outcome)

\* The blocking call returns: the handler logs the message and opens its
\* information or warning box (lines 721-726, 730-735, 739-744).
action_returns(outcome) ==
    /\ alive
    /\ frame.at = "running"
    /\ LET r == privileged_action(outcome)
       IN  /\ log_output' = log_message(log_output, r.message)
           /\ frame' = [frame EXCEPT !.at = "result", !.result = r]
    /\ UNCHANGED handlerRest

\* The user dismisses a warning or information box: the handler returns.
close_dialog ==
    /\ alive
    /\ frame.at \in {"warning_no_selection", "result"}
    /\ frame' = NoFrame
    /\ UNCHANGED <<handlerRest, log_output>>

(***************************************************************************)
(* EnhancedSysMonitor.__init__: the widgets as setup_ui builds them,       *)
(* self.x = 0, the baseline read from the OS counters, the timer started.  *)
(***************************************************************************)
InitWith(counters) ==
    /\ x = 0
    /\ cpu_series = <<>>
    /\ ram_series = <<>>
    /\ cpu_axis_x = <<0, AxisInit>>
    /\ ram_axis_x = <<0, AxisInit>>
    /\ cpu_label = 0
    /\ cpu_temp_label = 0
    /\ cpu_bar = NewBar
    /\ ram_label = 0
    /\ ram_details = <<0, 0>>
    /\ ram_bar = NewBar
    /\ disk_label = <<>>
    /\ disk_bar = NewBar
    /\ network_sent_label = 0
    /\ network_recv_label = 0
    /\ battery_label = [text |-> "Status: N/A", percent |-> 0]
    /\ battery_bar = NewBar
    /\ uptime_label = <<>>
    /\ process_table = <<>>
    /\ selected_row = 0
    /\ power_combo = "balanced"
    /\ log_output = <<>>
    /\ os_net \in counters
    /\ os_net_reset = FALSE
    /\ network_baseline = get_network_info(os_net)
    /\ timer_active = TRUE
    /\ alive = TRUE
    /\ frame = NoFrame
    /\ snapshot = None

(***************************************************************************)
(* What the environment can answer.                                        *)
(***************************************************************************)
MaxTick == 2           \* ticks explored where the handlers are explored in full
MaxLog == 1            \* privileged actions per run there
MaxTickSeries == 62    \* ticks explored for the rolling series
MaxLogSeries == 1
MaxTickMetrics == 2    \* ticks explored over every combination of readings
MaxNetSteps == 1       \* counter values, in steps of half a MiB
MaxTickBands == 2      \* ticks explored around the colour thresholds
MaxTickBattery == 1    \* ticks explored over every battery charge

Counters(steps) ==
    [bytes_sent : {k * (MiB \div 2) : k \in steps},
     bytes_recv : {k * (MiB \div 2) : k \in steps}]

Ram == [percent |-> 420, used |-> 3277, total |-> 7800]
Disk == [total |-> 102400, used |-> 51251, free |-> 51149, percent |-> 501]
Thermal == [raises |-> FALSE, millideg |-> 45500]
NoThermal == [raises |-> TRUE, millideg |-> 0]
Battery(percent, plugged, secsleft) ==
    Some([percent |-> percent, power_plugged |-> plugged, secsleft |-> secsleft])
Proc(pid, name, cpu, mem) ==
    [pid |-> pid, name |-> name, cpu_percent |-> cpu, memory_percent |-> mem]
ProcsA == <<Proc(7, "bash", 10, 3), Proc(9, "python3", 125, 41)>>
ProcsB == <<Proc(11, "Xorg", 52, 20)>>

KillOutcomes == {"ok", "ProcessLookupError", "PermissionError", "OSError"}
RunOutcomes == {"ok", "CalledProcessError", "FileNotFoundError"}
StorageOutcomes == {"ok", "CalledProcessError", "item_error", "OSError"}
Outcomes == RunOutcomes \cup StorageOutcomes

\* The outcomes the call the running handler made can have.
OutcomesOf(fn) ==
    IF fn = "clear_storage_cache_action" THEN StorageOutcomes ELSE RunOutcomes

(***************************************************************************)
(* Spec: the handlers in full, with a few ticks between and under them.    *)
(***************************************************************************)
Samples ==
    [cpu : {375}, ram : {Ram}, thermal : {Thermal},
     battery : {Battery(300, FALSE, 3725)}, disk : {Disk},
     net : Counters({1}) \cup Counters({2}), uptime : {3725},
     procs : {ProcsA, ProcsB}, raises : {{}, {"procs"}}]

Init == InitWith(Counters({1}))

Tick == x < MaxTick /\ \E s \in Samples : update_stats(s)
SelectRow == \E r \in 1..TopLimit : select_row(r)
ChoosePowerMode == \E m \in PowerModes : choose_power_mode(m)
KillSelectedProcess == Len(log_output) < MaxLog /\ kill_selected_process
AnswerQuestion == \E reply \in {"Yes", "No"}, o \in KillOutcomes : answer_question(reply, o)
ApplyPowerMode == Len(log_output) < MaxLog /\ apply_power_mode
ClearRamCacheAction == Len(log_output) < MaxLog /\ clear_ram_cache_action
ClearStorageCacheAction == Len(log_output) < MaxLog /\ clear_storage_cache_action
ActionReturns == \E o \in OutcomesOf(frame.fn) : action_returns(o)
CloseDialog == close_dialog

Next ==
    \/ Tick
    \/ SelectRow
    \/ ChoosePowerMode
    \/ KillSelectedProcess
    \/ AnswerQuestion
    \/ ApplyPowerMode
    \/ ClearRamCacheAction
    \/ ClearStorageCacheAction
    \/ ActionReturns
    \/ CloseDialog

Spec == Init /\ [][Next]_vars

(***************************************************************************)
(* SpecSeries: long runs, past the capacity of the rolling series, with    *)
(* the kill handler and its dialogs in between.                            *)
(***************************************************************************)
SeriesSamples ==
    [cpu : {375}, ram : {Ram}, thermal : {Thermal},
     battery : {Battery(300, FALSE, 3725)}, disk : {Disk},
     net : Counters({1}), uptime : {3725},
     procs : {ProcsA}, raises : {{}, {"disk"}, {"boot"}, {"procs"}}]

TickSeries == x < MaxTickSeries /\ \E s \in SeriesSamples : update_stats(s)
KillSelectedProcessSeries == Len(log_output) < MaxLogSeries /\ kill_selected_process
AnswerQuestionSeries ==
    \E reply \in {"Yes", "No"}, o \in {"ok", "ProcessLookupError"} : answer_question(reply, o)

NextSeries ==
    \/ TickSeries
    \/ SelectRow
    \/ KillSelectedProcessSeries
    \/ AnswerQuestionSeries
    \/ CloseDialog

SpecSeries == Init /\ [][NextSeries]_vars

(***************************************************************************)
(* SpecMetrics: the sampling callback over every combination of readings,  *)
(* each source failing or not, the counters free to go backwards.          *)
(***************************************************************************)
MetricSamples ==
    [cpu : {375, 850}, ram : {Ram}, thermal : {Thermal, NoThermal},
     battery : {None, Battery(300, FALSE, 3725), Battery(300, TRUE, POWER_TIME_UNLIMITED)},
     disk : {Disk}, net : Counters(0..MaxNetSteps), uptime : {3725},
     procs : {ProcsA}, raises : {{}}]
    \cup
    [cpu : {375}, ram : {Ram}, thermal : {Thermal, NoThermal},
     battery : {None, Battery(300, FALSE, 3725)},
     disk : {Disk}, net : Counters({1}), uptime : {3725},
     procs : {ProcsA}, raises : {{src} : src \in Sources}]

InitMetrics == InitWith(Counters({0, 1}))

TickMetrics == x < MaxTickMetrics /\ \E s \in MetricSamples : update_stats(s)

NextMetrics == TickMetrics

SpecMetrics == InitMetrics /\ [][NextMetrics]_vars

(***************************************************************************)
(* SpecBands: the sampling callback with readings on and next to the two   *)
(* colour thresholds.  Each of the four bars is fed each of the values;    *)
(* the stride decides whether the bars of one tick are fed the same value  *)
(* or different ones.                                                      *)
(***************************************************************************)
BandValues == <<0, 599, 600, 849, 850, 1000>>
BandValueAt(i) == BandValues[((i - 1) % Len(BandValues)) + 1]
BatteryModes == {"discharging", "plugged", "none"}

BandSample(i, stride, mode) ==
    [cpu |-> BandValueAt(i),
     ram |-> [Ram EXCEPT !.percent = BandValueAt(i + stride)],
     thermal |-> Thermal,
     battery |-> IF mode = "none" THEN None
                 ELSE IF mode = "plugged"
                 THEN Battery(1000 - BandValueAt(i + 3 * stride), TRUE, POWER_TIME_UNLIMITED)
                 ELSE Battery(1000 - BandValueAt(i + 3 * stride), FALSE, 3725),
     disk |-> [Disk EXCEPT !.percent = BandValueAt(i + 2 * stride)],
     net |-> [bytes_sent |-> MiB \div 2, bytes_recv |-> MiB \div 2],
     uptime |-> 3725, procs |-> ProcsA, raises |-> {}]

BandSamples ==
    {BandSample(i, stride, mode) :
        i \in 1..Len(BandValues), stride \in 0..2, mode \in BatteryModes}

TickBands == x < MaxTickBands /\ \E s \in BandSamples : update_stats(s)

NextBands == TickBands

SpecBands == Init /\ [][NextBands]_vars

(***************************************************************************)
(* SpecBattery: the sampling callback over every whole battery charge from *)
(* 0 to 100 percent and the fractional ones next to the thresholds,        *)
(* discharging and plugged in, and without a battery.                      *)
(***************************************************************************)
Charges == {10 * p : p \in 0..100} \cup {5, 149, 151, 399, 401, 995}

BatterySamples ==
    [cpu : {375}, ram : {Ram}, thermal : {Thermal},
     battery : {None} \cup {Battery(c, FALSE, 3725) : c \in Charges}
                      \cup {Battery(c, TRUE, POWER_TIME_UNLIMITED) : c \in Charges},
     disk : {Disk}, net : Counters({1}), uptime : {3725},
     procs : {ProcsA}, raises : {{}}]
    \cup
    [cpu : {375}, ram : {Ram}, thermal : {Thermal},
     battery : {Battery(300, FALSE, 3725)},
     disk : {Disk}, net : Counters({1}), uptime : {3725},
     procs : {ProcsA}, raises : {{"disk"}, {"boot"}}]

TickBattery == x < MaxTickBattery /\ \E s \in BatterySamples : update_stats(s)

NextBattery == TickBattery

SpecBattery == Init /\ [][NextBattery]_vars

(***************************************************************************)
(* Properties.                                                             *)
(***************************************************************************)
AnySample ==
    Samples \cup SeriesSamples \cup MetricSamples \cup BandSamples \cup BatterySamples
AllOutcomes == Outcomes \cup KillOutcomes

\* A step of update_stats: every call either records a sample (x moves) or
\* is aborted by an exception (alive falls), and nothing else does either.
TickStep == x' # x \/ alive' # alive
TickStepIsUpdateStats ==
    [][ TickStep <=> \E s \in AnySample : update_stats(s) ]_vars

\* The sample of the tick just taken.
Sampled == snapshot'[1]
Recorded(s) == s.raises \cap (ReadSources \cup {"boot"}) = {}
SingleFailure(s) ==
    Cardinality(s.raises) + (IF s.thermal.raises THEN 1 ELSE 0) = 1
TickIndices(series) == [k \in 1..Len(series) |-> series[k].x]
LogEntry(message) == [stamp |-> "[HH:MM:SS]", message |-> message]

\* What a tick shows of the sources named in shown, s being the sample.
Shows(s, shown) ==
    /\ "cpu" \in shown =>
          /\ cpu_label' = s.cpu
          /\ cpu_bar' = [value |-> IntOf(s.cpu), color |-> update_color(s.cpu)]
    /\ "ram" \in shown =>
          /\ ram_label' = s.ram.percent
          /\ ram_bar'.value = IntOf(s.ram.percent)
    /\ "disk" \in shown =>
          /\ disk_label' = <<Fmt1(s.disk.used, 1024), Fmt1(s.disk.total, 1024)>>
          /\ disk_bar'.value = IntOf(s.disk.percent)
    /\ "net" \in shown =>
          /\ network_sent_label' = Fmt1(s.net.bytes_sent - network_baseline.sent, MiB)
          /\ network_recv_label' = Fmt1(s.net.bytes_recv - network_baseline.recv, MiB)
    /\ "battery" \in shown /\ s.battery # None =>
          /\ battery_label'.percent = Fmt0(s.battery[1].percent)
          /\ battery_bar'.value = IntOf(s.battery[1].percent)
    /\ "boot" \in shown =>
          uptime_label' = <<s.uptime \div 3600, (s.uptime % 3600) \div 60>>
    /\ "procs" \in shown =>
          /\ Len(process_table') = Len(s.procs)
          /\ {process_table'[i].pid : i \in 1..Len(process_table')}
                = {s.procs[i].pid : i \in 1..Len(s.procs)}

\* One point appended to each series and the counter advanced.
Records(s) ==
    /\ x' = x + 1
    /\ cpu_series'[Len(cpu_series')] = [x |-> x, y |-> s.cpu]
    /\ ram_series'[Len(ram_series')] = [x |-> x, y |-> s.ram.percent]

\* C1: once the sample with tick-index T is recorded (self.x = T + 1), each
\* series holds exactly min(T + 1, 60) points; so never more than 60.
C1_SeriesLength ==
    /\ Len(cpu_series) = Min(x, 60)
    /\ Len(ram_series) = Min(x, 60)
    /\ Len(cpu_series) <= 60 /\ Len(ram_series) <= 60

\* 61 samples recorded (T = 60), both series at their capacity.
C1_Witness == x = 61 /\ Len(cpu_series) = 60 /\ Len(ram_series) = 60

\* C2: both series hold the same contiguous run of tick-indices ending at
\* the newest sample x - 1; past capacity the oldest is (x - 1) - 59; after
\* 61 ticks they hold exactly ticks 1..60.
C2_SlidingWindow ==
    /\ TickIndices(cpu_series) = TickIndices(ram_series)
    /\ \A k \in 1..Len(cpu_series) :
          cpu_series[k].x = (x - 1) - (Len(cpu_series) - k)
    /\ x > 60 => cpu_series[1].x = (x - 1) - 59
    /\ x = 61 => TickIndices(cpu_series) = [k \in 1..60 |-> k]

\* 61 ticks recorded: tick 0 is gone, ticks 1..60 are held.
C2_Witness ==
    /\ x = 61
    /\ cpu_series[1].x = 1 /\ cpu_series[60].x = 60
    /\ ram_series[1].x = 1 /\ ram_series[60].x = 60

\* C3 as stated: self.x is 0 at first and goes up by one on every
\* update_stats call, and the x-axis range of both charts is
\* [max(0, x - 60), x] in every state, the first included.
C3_AxisAlwaysWindow ==
    [][ /\ cpu_axis_x = <<Max(0, x - 60), x>>
        /\ ram_axis_x = <<Max(0, x - 60), x>>
        /\ TickStep => x' = x + 1 ]_vars

\* C3 amended: self.x is 0 at first, goes up by one with every sample
\* update_stats records, evicting or not, and changes in no other way; the
\* x-axis range of both charts is [0, 60] until the first sample is
\* recorded and [max(0, x - 60), x] from then on.
C3_AxisWindowOnceSampled ==
    [][ /\ x = 0 => cpu_axis_x = <<0, 60>> /\ ram_axis_x = <<0, 60>>
        /\ x' = x \/ x' = x + 1
        /\ TickStep /\ Recorded(Sampled) => x' = x + 1
        /\ x' = x + 1 => /\ cpu_series'[Len(cpu_series')].x = x
                         /\ ram_series'[Len(ram_series')].x = x
                         /\ cpu_axis_x' = <<Max(0, x' - 60), x'>>
                         /\ ram_axis_x' = <<Max(0, x' - 60), x'>>
        /\ x' = x => cpu_axis_x' = cpu_axis_x /\ ram_axis_x' = ram_axis_x ]_vars

\* The counter has passed the capacity and the window has moved with it.
C3_Witness == x = 61 /\ cpu_axis_x = <<1, 61>> /\ ram_axis_x = <<1, 61>>

\* C4: a tick in which exactly one metric source fails still shows every
\* other metric, appends one point to each series and advances the counter;
\* the tick is not aborted.
C4_PartialResultTolerance ==
    [][ TickStep /\ SingleFailure(Sampled) =>
          /\ alive'
          /\ Shows(Sampled, Sources \ Sampled.raises)
          /\ Sampled.thermal.raises => cpu_temp_label' = 0
          /\ Records(Sampled) ]_vars

\* C5: with the thermal file missing or unreadable the temperature shown is
\* 0.0; without a battery the label is "No battery detected" and the bar 0;
\* in both cases the tick completes and everything else is updated as with
\* the sensor present.
C5_SensorAbsent ==
    [][ TickStep /\ Sampled.raises = {}
                 /\ (Sampled.thermal.raises \/ Sampled.battery = None) =>
          /\ alive'
          /\ Sampled.thermal.raises => cpu_temp_label' = 0
          /\ ~Sampled.thermal.raises =>
                cpu_temp_label' = Fmt1(Sampled.thermal.millideg, 1000)
          /\ Sampled.battery = None =>
                /\ battery_label' = [text |-> "No battery detected", percent |-> 0]
                /\ battery_bar'.value = 0
          /\ Shows(Sampled, Sources)
          /\ Records(Sampled) ]_vars

\* A tick ran with neither sensor: both defaults shown beside live values.
C5_Witness ==
    /\ alive /\ x >= 1
    /\ snapshot[1].thermal.raises /\ snapshot[1].battery = None
    /\ cpu_temp_label = 0
    /\ battery_label.text = "No battery detected" /\ battery_bar.value = 0
    /\ cpu_label = 850 /\ uptime_label = <<1, 2>> /\ Len(process_table) = 2

HandlerStarts ==
    \/ kill_selected_process
    \/ apply_power_mode
    \/ clear_ram_cache_action
    \/ clear_storage_cache_action

\* C6 as stated: no tick starts while an action handler has begun and not
\* yet returned, and no handler starts while a tick is in progress
\* (update_stats runs no event loop, so a tick is one step here and nothing
\* can start inside it).
C6_NeverInterleaved ==
    [][ /\ TickStep => frame.fn = "none"
        /\ HandlerStarts => frame.fn = "none" ]_vars

\* C6 amended: the callbacks share the GUI thread and never run in
\* parallel; no tick starts while a handler executes its code or its
\* blocking privileged call, and no handler starts while another is on the
\* stack; a tick starts under a handler only while that handler waits in
\* the event loop of one of its modal message boxes.
C6_TicksOnlyInEventLoops ==
    [][ /\ TickStep => (frame.fn = "none" \/ frame.at \in Dialogs)
        /\ HandlerStarts => frame.fn = "none" ]_vars

\* The confirmation dialog of kill_selected_process is open for pid 9 and a
\* tick under it has refreshed the table to another process list.
C6_Witness ==
    /\ frame.fn = "kill_selected_process" /\ frame.at = "question"
    /\ frame.pid = 9
    /\ Len(process_table) = 1 /\ process_table[1].pid = 11

\* C7: whichever privileged action fails, it returns (False, message), the
\* handler appends exactly one log line carrying that message, and the
\* application and its timer stay up.
C7_FailureReported ==
    [][ \A o \in AllOutcomes \ {"ok"} :
          action_returns(o) \/ answer_question("Yes", o) =>
             /\ frame'.result.success = FALSE
             /\ log_output' = Append(log_output, LogEntry(frame'.result.message))
             /\ alive' /\ timer_active' ]_vars

\* C8: kill_process on a pid that is gone returns (False, "Process <pid>
\* not found"), the log gains that line, and the timer can still fire.
C8_KillVanishedPid ==
    [][ answer_question("Yes", "ProcessLookupError") =>
          /\ frame'.result = [success |-> FALSE,
                              message |-> [text |-> "Process {pid} not found",
                                           pid |-> frame.pid, detail |-> ""]]
          /\ log_output' = Append(log_output, LogEntry(frame'.result.message))
          /\ TimerCanFire' ]_vars

\* The kill of pid 9 found no such process and the log says so.
C8_Witness ==
    /\ frame.fn = "kill_selected_process" /\ frame.at = "result"
    /\ ~frame.result.success
    /\ log_output = <<LogEntry([text |-> "Process {pid} not found", pid |-> 9,
                                detail |-> ""])>>
    /\ TimerCanFire

\* C9: the baseline is the constructor's reading of the counters, taken
\* before any tick, and no step changes it.
C9_BaselineFixed ==
    [][ /\ (x = 0 /\ alive) => network_baseline = get_network_info(os_net)
        /\ network_baseline' = network_baseline ]_vars

\* Ticks have read other counter values and a handler has run; the
\* baseline is still the constructor's.
C9_Witness ==
    /\ x >= 1 /\ log_output # <<>>
    /\ os_net.bytes_sent # MiB \div 2
    /\ network_baseline = [sent |-> MiB \div 2, recv |-> MiB \div 2]

\* C10: while the OS counters have not gone backwards, what is shown per
\* direction is the counter as last read minus the baseline, and with every
\* tick it is not negative and not below what the previous tick showed.
C10_NetDeltaMonotone ==
    [][ ~os_net_reset' =>
          /\ network_sent_label' = Fmt1(os_net'.bytes_sent - network_baseline.sent, MiB)
          /\ network_recv_label' = Fmt1(os_net'.bytes_recv - network_baseline.recv, MiB)
          /\ network_sent_label' >= 0 /\ network_recv_label' >= 0
          /\ network_sent_label' >= network_sent_label
          /\ network_recv_label' >= network_recv_label ]_vars

\* Two ticks on counters that only grew: half a MiB shown each way.
C10_Witness ==
    /\ x = 2 /\ alive /\ ~os_net_reset
    /\ network_sent_label = 5 /\ network_recv_label = 5

\* The band a chunk colour stands for, and the band the colour-threshold
\* policy gives a value (in tenths).
BandOf(color) ==
    IF color = "#4CAF50" THEN "nominal"
    ELSE IF color = "#FF9800" THEN "elevated"
    ELSE IF color = "#F44336" THEN "critical"
    ELSE "unknown"
Policy(band, value) ==
    /\ band = "nominal" <=> value < 600
    /\ band = "elevated" <=> (600 <= value /\ value < 850)
    /\ band = "critical" <=> value >= 850
\* The value update_stats hands to the battery bar's update_color.
Urgency(b) == IF b.power_plugged THEN 0 ELSE 1000 - b.percent
ReadsSucceed(s) == s.raises \cap ReadSources = {}

\* C11: update_color puts a value below 60 in the nominal band, one from 60
\* and below 85 in the elevated band and one from 85 in the critical band
\* (59.9 nominal, 60.0 and 84.9 elevated, 85.0 critical); and whatever a
\* bar showed before the tick, each bar the tick restyles is given the band
\* of the value it was fed, the same band for the same value on every bar.
C11_BandOfValueAlone ==
    [][ /\ x = 0 => \A v \in 0..1000 : Policy(BandOf(update_color(v)), v)
        /\ BandOf(update_color(599)) = "nominal"
        /\ BandOf(update_color(600)) = "elevated"
        /\ BandOf(update_color(849)) = "elevated"
        /\ BandOf(update_color(850)) = "critical"
        /\ TickStep /\ ReadsSucceed(Sampled) =>
              /\ Policy(BandOf(cpu_bar'.color), Sampled.cpu)
              /\ Policy(BandOf(ram_bar'.color), Sampled.ram.percent)
              /\ Policy(BandOf(disk_bar'.color), Sampled.disk.percent)
              /\ Sampled.battery # None =>
                    Policy(BandOf(battery_bar'.color), Urgency(Sampled.battery[1])) ]_vars

\* The second tick feeds 60.0 to all four bars after the first fed 85.0 to
\* the CPU bar: all four are in the elevated band.
C11_Witness ==
    /\ x = 2
    /\ cpu_series[1].y = 850 /\ cpu_series[2].y = 600
    /\ snapshot[1].ram.percent = 600 /\ snapshot[1].disk.percent = 600
    /\ snapshot[1].battery = Battery(400, FALSE, 3725)
    /\ cpu_bar.color = "#FF9800" /\ ram_bar.color = "#FF9800"
    /\ disk_bar.color = "#FF9800" /\ battery_bar.color = "#FF9800"

\* C12: at every tick that reads a battery, the battery bar is coloured by
\* the band of 100 - percent when the battery is discharging and by the
\* band of 0 when it is plugged in, while the bar's fill is the charge
\* percent itself (its whole part, for a fractional charge).
C12_BatteryUrgency ==
    [][ TickStep /\ ReadsSucceed(Sampled) /\ Sampled.battery # None =>
          LET b == Sampled.battery[1]
          IN  /\ b.power_plugged => Policy(BandOf(battery_bar'.color), 0)
              /\ ~b.power_plugged => Policy(BandOf(battery_bar'.color), 1000 - b.percent)
              /\ 10 * battery_bar'.value <= b.percent
              /\ b.percent < 10 * battery_bar'.value + 10
              /\ b.percent % 10 = 0 => 10 * battery_bar'.value = b.percent ]_vars

\* A battery discharging at 15 percent: the bar is filled to 15 and coloured
\* for 85, the critical band.
C12_Witness ==
    /\ x = 1
    /\ snapshot[1].battery = Battery(150, FALSE, 3725)
    /\ battery_bar = [value |-> 15, color |-> "#F44336"]

\* The battery a tick read is at 30 percent, plugged in or not.
ThirtyPercent(s, plugged) ==
    /\ ReadsSucceed(s)
    /\ s.battery # None
    /\ s.battery[1].percent = 300
    /\ s.battery[1].power_plugged = plugged

\* C13 as stated: at 30 percent and discharging the battery bar is put in
\* the critical band, at 30 percent and plugged in in the nominal band.
C13_ThirtyPercentCritical ==
    [][ TickStep =>
          /\ ThirtyPercent(Sampled, FALSE) => BandOf(battery_bar'.color) = "critical"
          /\ ThirtyPercent(Sampled, TRUE) => BandOf(battery_bar'.color) = "nominal" ]_vars

\* C13, amended: at 30 percent and discharging the monitored value is 70 and
\* the battery bar is put in the elevated band (60 <= 70 < 85); at 30
\* percent and plugged in the monitored value is 0 and the band is nominal.
C13_ThirtyPercentElevated ==
    [][ TickStep =>
          /\ ThirtyPercent(Sampled, FALSE) =>
                /\ battery_monitored(get_battery_info(Sampled.battery)[1]) = 700
                /\ BandOf(battery_bar'.color) = "elevated"
                /\ battery_bar'.value = 30
          /\ ThirtyPercent(Sampled, TRUE) =>
                /\ battery_monitored(get_battery_info(Sampled.battery)[1]) = 0
                /\ BandOf(battery_bar'.color) = "nominal"
                /\ battery_bar'.value = 30 ]_vars

\* A battery discharging at 30 percent has been read and shown.
C13_Witness ==
    /\ x = 1
    /\ snapshot[1].battery = Battery(300, FALSE, 3725)
    /\ battery_bar = [value |-> 30, color |-> "#FF9800"]

\* A step of an action handler: its start on a click, the return of its
\* privileged call, the user's answer to its question, its return.
\* Each of them moves the handler's frame, and nothing else does.
HandlerStep == frame' # frame
HandlerStepIsHandler ==
    [][ HandlerStep <=>
          \/ HandlerStarts
          \/ \E o \in AllOutcomes : action_returns(o)
          \/ \E reply \in {"Yes", "No"}, o \in KillOutcomes : answer_question(reply, o)
          \/ close_dialog ]_vars

\* C14: a tick calls no privileged action: it leaves the action log, the
\* handler on the stack with the result it holds, and the chosen power mode
\* as they were; and no step of an action handler changes the tick counter,
\* either rolling series or the network baseline.
C14_PrivilegedOnlyOnRequest ==
    [][ /\ TickStep =>
              /\ log_output' = log_output
              /\ frame' = frame
              /\ power_combo' = power_combo
        /\ HandlerStep =>
              /\ ~TickStep
              /\ x' = x
              /\ cpu_series' = cpu_series /\ ram_series' = ram_series
              /\ cpu_axis_x' = cpu_axis_x /\ ram_axis_x' = ram_axis_x
              /\ network_baseline' = network_baseline ]_vars

\* Two samples are recorded and Clear RAM Cache, requested by the user, has
\* run and logged its one line: nothing else is in the log.
C14_Witness ==
    /\ x = 2 /\ Len(cpu_series) = 2 /\ Len(ram_series) = 2
    /\ frame.fn = "clear_ram_cache_action" /\ frame.at = "result"
    /\ log_output = <<LogEntry(frame.result.message)>>
    /\ network_baseline = [sent |-> MiB \div 2, recv |-> MiB \div 2]

\* The handler on the stack is kill_selected_process, waiting at a dialog.
KillHandlerAt(place) == frame.fn = "kill_selected_process" /\ frame.at = place

\* C15: the handler reads the pid from the selected row and shows it in the
\* confirmation; the pid shown stays the same while ticks refresh the table
\* under the dialog; kill_process is called, and its message logged, only
\* on the answer Yes and with the pid shown; without a selection and on
\* the answer No the log is left as it was and the handler returns.
C15_KillOnlyConfirmedPid ==
    [][ /\ kill_selected_process =>
              IF selected_row = 0
              THEN /\ KillHandlerAt("warning_no_selection")'
                   /\ log_output' = log_output
              ELSE /\ KillHandlerAt("question")'
                   /\ frame'.pid = process_table[selected_row].pid
                   /\ log_output' = log_output
        /\ (KillHandlerAt("question") /\ KillHandlerAt("question")') =>
              /\ frame'.pid = frame.pid
              /\ log_output' = log_output
        /\ (frame.fn = "kill_selected_process" /\ log_output' # log_output) =>
              /\ KillHandlerAt("question") /\ KillHandlerAt("result")'
              /\ \E o \in KillOutcomes :
                    /\ frame'.result.message.text = kill_process(frame.pid, o).message.text
                    /\ frame'.result.message.pid \in {frame.pid, 0}
                    /\ o \in {"ok", "ProcessLookupError", "PermissionError"} =>
                          frame'.result.message.pid = frame.pid
              /\ log_output' = Append(log_output, LogEntry(frame'.result.message))
        /\ (KillHandlerAt("question") /\ frame'.fn = "none") =>
              log_output' = log_output
        /\ KillHandlerAt("warning_no_selection") =>
              /\ log_output' = log_output
              /\ frame' = frame \/ frame' = NoFrame ]_vars

\* Row 2 (pid 7) was selected and confirmed; the table has since been
\* refreshed to another process list, and pid 7 is the one signalled.
C15_Witness ==
    /\ KillHandlerAt("result") /\ frame.pid = 7
    /\ frame.result = kill_process(7, "ok")
    /\ log_output = <<LogEntry(frame.result.message)>>
    /\ Len(process_table) = 1 /\ process_table[1].pid = 11

====
